---- MODULE Spec2Model ----
(***************************************************************************)
(* Kampai account & entitlement ledger: the relational store (users,       *)
(* usage, generations, payments, subscriptions) and the operations of      *)
(* backend/auth.py, backend/payment.py and backend/server.py that read and *)
(* write it.                                                               *)
(*                                                                         *)
(* Specifications:                                                         *)
(*   SpecUsage  the usage ledger and the generation endpoints, requests    *)
(*              handled one after another;                                 *)
(*   Spec       payment reconciliation, requests handled one after         *)
(*              another;                                                   *)
(*   SpecConc   confirm_payment calls running concurrently, each on its    *)
(*              own database connection.                                   *)
(***************************************************************************)
EXTENDS Integers, Sequences, FiniteSets, TLC

(***************************************************************************)
(* Bounds of the model.                                                    *)
(***************************************************************************)
\* rows the generations table may hold (= increment_usage calls of a run)
MaxGenerations == 4
\* last calendar day the usage ledger is followed to (days count from 0)
MaxUsageDay == 1

Users == {1, 2}

\* the value of a column that holds SQL NULL / Python None
NULL == "NULL"

(***************************************************************************)
(* Plan catalog, auth.py PLANS.                                            *)
(***************************************************************************)
PLANS ==
    [ free     |-> [name |-> "Free",     price |-> 0,     daily_limit |-> 3],
      basic    |-> [name |-> "Basic",    price |-> 4900,  daily_limit |-> 30],
      pro      |-> [name |-> "Pro",      price |-> 19900, daily_limit |-> 100],
      business |-> [name |-> "Business", price |-> 99000, daily_limit |-> 500] ]

PlanTags == DOMAIN PLANS

\* PLANS.get(plan, PLANS['free'])
plan_info(plan) == IF plan \in DOMAIN PLANS THEN PLANS[plan] ELSE PLANS["free"]

(***************************************************************************)
(* Time.  The clock counts seconds; DATE('now') / CURRENT_DATE is the day  *)
(* the second falls in.                                                    *)
(***************************************************************************)
DAY == 24 * 60 * 60

CURRENT_DATE(t) == t \div DAY

VARIABLES
    IS_POSTGRES,     \* auth.py: DATABASE_URL is set (PostgreSQL) or not (SQLite)
    now,             \* the wall clock, in seconds
    users,           \* table users:         id -> [plan]
    usage,           \* table usage:         <<user_id, date>> -> generation_count
    generations,     \* table generations:   sequence of rows
    payments,        \* table payments:      sequence of rows
    subscriptions,   \* table subscriptions: sequence of rows
    conf,            \* confirm_payment calls in flight (SpecConc)
    last,            \* the request handled last and its response
    completed,       \* increment_usage calls completed per user on the current day
    jobs             \* background jobs: the worker's position and the output directory

vars == <<IS_POSTGRES, now, users, usage, generations, payments, subscriptions,
          conf, last, completed, jobs>>

tables == <<users, usage, generations, payments, subscriptions>>

(***************************************************************************)
(* Usage ledger, auth.py.                                                  *)
(***************************************************************************)

\* get_user_usage: "can_generate": daily_limit < 0 or today_count < daily_limit
can_generate_off_by_one(daily_limit, today_count) ==
    daily_limit < 0 \/ today_count <= daily_limit

can_generate(daily_limit, today_count) ==
    daily_limit < 0 \/ today_count < daily_limit

\* a read of the user's first usage row whatever its date
today_count_any_day(us, user_id, t) ==
    IF \E k \in DOMAIN us : k[1] = user_id
    THEN us[CHOOSE k \in DOMAIN us : k[1] = user_id /\ \A j \in DOMAIN us :
                                          j[1] = user_id => k[2] <= j[2]]
    ELSE 0

\* SELECT generation_count FROM usage WHERE user_id = ? AND date = DATE('now');
\* 0 when there is no row
today_count(us, user_id, t) ==
    IF <<user_id, CURRENT_DATE(t)>> \in DOMAIN us
    THEN us[<<user_id, CURRENT_DATE(t)>>]
    ELSE 0

\* SELECT COUNT(*) FROM generations WHERE user_id = ?
total_generated(gens, user_id) ==
    Cardinality({i \in DOMAIN gens : gens[i].user_id = user_id})

\* get_user_usage(user_id) on the tables usrs, us, gens at time t; found is
\* FALSE where the code returns None
get_user_usage_at(usrs, us, gens, user_id, t) ==
    IF user_id \notin DOMAIN usrs THEN [found |-> FALSE]
    ELSE LET plan  == usrs[user_id].plan
             info  == plan_info(plan)
             count == today_count(us, user_id, t)
             limit == info.daily_limit
         IN  [ found           |-> TRUE,
               plan            |-> plan,
               today_count     |-> count,
               daily_limit     |-> limit,
               remaining       |-> IF limit > 0 THEN limit - count ELSE -1,
               total_generated |-> total_generated(gens, user_id),
               can_generate    |-> can_generate(limit, count) ]

get_user_usage(user_id) == get_user_usage_at(users, usage, generations, user_id, now)

\* check_can_generate that lets every known user through
check_can_generate_open(user_id) ==
    IF ~get_user_usage(user_id).found
    THEN [can_generate |-> FALSE, error |-> "user_not_found"]
    ELSE [can_generate |-> TRUE, error |-> NULL]

\* check_can_generate(user_id): the can_generate flag of the answer, and
\* whether the answer carries the quota-exceeded error
check_can_generate(user_id) ==
    LET u == get_user_usage(user_id)
    IN  IF ~u.found THEN [can_generate |-> FALSE, error |-> "user_not_found"]
        ELSE IF ~u.can_generate
             THEN [can_generate |-> FALSE, error |-> "quota_exceeded",
                   limit_named |-> u.daily_limit]
             ELSE [can_generate |-> TRUE, error |-> NULL]

\* an upsert that replaces the row of the day (INSERT OR REPLACE) instead of
\* adding to its counter
usage_upsert_replace(us, user_id, t) ==
    (<<user_id, CURRENT_DATE(t)>> :> 1) @@ us

\* the upsert of increment_usage: insert today's row with count 1, or add 1 to it
usage_upsert(us, user_id, t) ==
    LET k == <<user_id, CURRENT_DATE(t)>>
    IN  IF k \in DOMAIN us THEN [us EXCEPT ![k] = @ + 1] ELSE (k :> 1) @@ us

\* the generation record of increment_usage: written when prompt or action is
\* truthy, with prompt or '[action]' as its text
generations_append(gens, user_id, action, prompt) ==
    IF prompt # NULL \/ action # ""
    THEN Append(gens, [user_id |-> user_id,
                       prompt  |-> IF prompt # NULL THEN prompt ELSE "[" \o action \o "]"])
    ELSE gens

(***************************************************************************)
(* Requests of the usage ledger, server.py.                                *)
(***************************************************************************)

\* POST /api/usage/record: increment_usage(user_id, action), then get_user_usage
api_record_usage(u) ==
    /\ Len(generations) < MaxGenerations
    /\ usage' = usage_upsert(usage, u, now)
    /\ generations' = generations_append(generations, u, "generate", NULL)
    /\ completed' = [completed EXCEPT ![u] = @ + 1]
    /\ last' = [op |-> "api_record_usage", user |-> u, result |-> "success",
                can_generate |->
                    get_user_usage_at(users, usage', generations', u, now).can_generate]
    /\ UNCHANGED <<IS_POSTGRES, now, users, payments, subscriptions, conf, jobs>>

\* GET /api/generate/check: check_can_generate(user_id)
api_check_generate(u) ==
    /\ last' = [op |-> "api_check_generate", user |-> u,
                result |-> IF check_can_generate(u).can_generate
                           THEN "can_generate" ELSE check_can_generate(u).error,
                can_generate |-> check_can_generate(u).can_generate]
    /\ UNCHANGED <<IS_POSTGRES, now, tables, conf, completed, jobs>>

\* what the image backends answer to a generation request
GenerateOutcomes == {"success", "backend_unavailable", "backend_failed"}

\* POST /api/generate for a request carrying u's token: reads the plan of the
\* identity, hands the prompt to the image backend and relays its answer
generate_image(u, has_prompt, backend) ==
    /\ last' = [op |-> "generate_image", user |-> u,
                plan |-> users[u].plan,
                result |-> IF ~has_prompt THEN "no_prompt" ELSE backend,
                can_generate |-> get_user_usage(u).can_generate]
    /\ UNCHANGED <<IS_POSTGRES, now, tables, conf, completed, jobs>>

\* midnight passes
NewDay ==
    /\ CURRENT_DATE(now) < MaxUsageDay
    /\ now' = (CURRENT_DATE(now) + 1) * DAY
    /\ completed' = [u \in Users |-> 0]
    /\ last' = [op |-> "new_day"]
    /\ UNCHANGED <<IS_POSTGRES, tables, conf, jobs>>

NoCalls == [p \in {} |-> NULL]

\* the users are registered today (register_user leaves a usage row with count
\* 0 for the day) and hold any plan of the catalog
InitUsage ==
    /\ IS_POSTGRES \in BOOLEAN
    /\ now = 0
    /\ users \in [Users -> [plan : PlanTags]]
    /\ usage = [k \in {<<u, CURRENT_DATE(0)>> : u \in Users} |-> 0]
    /\ generations = <<>>
    /\ payments = <<>>
    /\ subscriptions = <<>>
    /\ conf = NoCalls
    /\ last = [op |-> "init"]
    /\ completed = [u \in Users |-> 0]
    /\ jobs = NoCalls

NextUsage ==
    \/ \E u \in Users : api_record_usage(u)
    \/ \E u \in Users : api_check_generate(u)
    \/ \E u \in Users, has_prompt \in BOOLEAN, backend \in GenerateOutcomes :
            generate_image(u, has_prompt, backend)
    \/ NewDay

SpecUsage == InitUsage /\ [][NextUsage]_vars

(***************************************************************************)
(* Payment reconciliation, payment.py.                                     *)
(***************************************************************************)

\* payment.py PLAN_PRICES
PLAN_PRICES == [basic |-> 4900, pro |-> 19900, business |-> 99000]

\* timedelta(days=30) of confirm_payment and update_user_plan
SUBSCRIPTION_DAYS == 30

\* payment keys a caller may send; the first carries the test-mode marker
PaymentKeys == {"test_payment_1", "tviva_1"}

\* payment_key.startswith('test_payment_')
is_test(payment_key) == payment_key \in {"test_payment_1"}

\* f"KAMPAI_{user_id}_{plan}_{now:%Y%m%d%H%M%S}": the clock enters to the second
make_order_id(user_id, plan, t) == <<"KAMPAI", user_id, plan, t>>

\* an order id no create_payment_order call has produced
UnknownOrder == <<"KAMPAI", 0, "pro", 0>>

\* int(base_amount * 0.1); the product is exact for every price of PLAN_PRICES
vat(base_amount) == base_amount \div 10

\* SQL comparison column = value: never true of NULL
sql_eq(column, value) == column # NULL /\ value # NULL /\ column = value

\* the rows of a table (a sequence) that WHERE payment_key = ? selects
rows_by_key(rows, payment_key) ==
    {i \in DOMAIN rows : sql_eq(rows[i].payment_key, payment_key)}

\* UPDATE rows SET status = st WHERE ..., the clause selecting the rows selected
set_status(rows, selected, st) ==
    [i \in DOMAIN rows |-> IF i \in selected THEN [rows[i] EXCEPT !.status = st]
                                              ELSE rows[i]]

\* SELECT user_id, plan, amount, status FROM payments WHERE order_id = ?
\* (order_id is UNIQUE: at most one row)
order_rows(pays, order_id) == {i \in DOMAIN pays : pays[i].order_id = order_id}

\* confirm_payment up to the amount check: the error it returns, or "ok"
confirm_check_no_status(pays, order_id, amount) ==
    IF order_rows(pays, order_id) = {} THEN "order_not_found"
    ELSE LET p == pays[CHOOSE i \in order_rows(pays, order_id) : TRUE]
         IN  IF amount # p.amount + vat(p.amount) /\ amount # p.amount
             THEN "amount_mismatch"
             ELSE "ok"

confirm_check_vat_only(pays, order_id, amount) ==
    IF order_rows(pays, order_id) = {} THEN "order_not_found"
    ELSE LET p == pays[CHOOSE i \in order_rows(pays, order_id) : TRUE]
         IN  IF p.status # "pending" THEN "already_processed"
             ELSE IF amount # p.amount + vat(p.amount)
                  THEN "amount_mismatch"
                  ELSE "ok"

confirm_check(pays, order_id, amount) ==
    IF order_rows(pays, order_id) = {} THEN "order_not_found"
    ELSE LET p == pays[CHOOSE i \in order_rows(pays, order_id) : TRUE]
         IN  IF p.status # "pending" THEN "already_processed"
             ELSE IF amount # p.amount + vat(p.amount) /\ amount # p.amount
                  THEN "amount_mismatch"
                  ELSE "ok"

\* UPDATE payments SET status = 'approved', payment_key = ? WHERE order_id = ?
payments_approve(pays, payment_key, order_id) ==
    [i \in DOMAIN pays |->
        IF pays[i].order_id = order_id
        THEN [pays[i] EXCEPT !.status = "approved", !.payment_key = payment_key]
        ELSE pays[i]]

\* UPDATE payments SET status = 'failed' WHERE order_id = ?
payments_fail(pays, order_id) ==
    set_status(pays, order_rows(pays, order_id), "failed")

\* UPDATE users SET plan = ? WHERE id = ?
users_set_plan(usrs, user_id, plan) ==
    [u \in DOMAIN usrs |-> IF u = user_id THEN [usrs[u] EXCEPT !.plan = plan]
                                          ELSE usrs[u]]

\* INSERT INTO subscriptions (user_id, plan, status, expires_at, payment_key,
\* order_id) VALUES (?, ?, 'active', now + 30 days, ?, ?); started_at defaults
\* to CURRENT_TIMESTAMP.  The table has no UNIQUE constraint besides its id,
\* so SQLite's INSERT OR REPLACE inserts too.
subscriptions_insert(subs, user_id, plan, payment_key, order_id, t) ==
    Append(subs, [ user_id     |-> user_id,
                   plan        |-> plan,
                   status      |-> "active",
                   started_at  |-> t,
                   expires_at  |-> t + SUBSCRIPTION_DAYS * DAY,
                   payment_key |-> payment_key,
                   order_id    |-> order_id ])

(***************************************************************************)
(* Subscription ledger reads, auth.py.                                     *)
(***************************************************************************)

\* SELECT ... FROM subscriptions WHERE user_id = ? AND status = 'active'
\* ORDER BY started_at DESC LIMIT 1: the rows the query may return (rows of
\* equal started_at come in no defined order)
latest_active(subs, user_id) ==
    LET act == {i \in DOMAIN subs : subs[i].user_id = user_id /\ subs[i].status = "active"}
    IN  {i \in act : \A j \in act : subs[j].started_at <= subs[i].started_at}

\* get_subscription_status(user_id) at time t: the answers it may give
get_subscription_status_at_free_active(subs, user_id, t) ==
    IF latest_active(subs, user_id) = {}
    THEN {[active |-> TRUE, plan |-> "free"]}
    ELSE {[ active     |-> ~(t > subs[i].expires_at),
            plan       |-> subs[i].plan,
            status     |-> subs[i].status,
            started_at |-> subs[i].started_at,
            expires_at |-> subs[i].expires_at,
            is_expired |-> t > subs[i].expires_at ] : i \in latest_active(subs, user_id)}

get_subscription_status_at_sweeps_expired(subs, user_id, t) ==
    IF latest_active(subs, user_id) = {}
    THEN {[active |-> FALSE, plan |-> "free"]}
    ELSE {[ active     |-> TRUE,
            plan       |-> IF t > subs[i].expires_at THEN "free" ELSE subs[i].plan,
            status     |-> subs[i].status,
            started_at |-> subs[i].started_at,
            expires_at |-> subs[i].expires_at,
            is_expired |-> FALSE ] : i \in latest_active(subs, user_id)}

get_subscription_status_at(subs, user_id, t) ==
    IF latest_active(subs, user_id) = {}
    THEN {[active |-> FALSE, plan |-> "free"]}
    ELSE {[ active     |-> ~(t > subs[i].expires_at),
            plan       |-> subs[i].plan,
            status     |-> subs[i].status,
            started_at |-> subs[i].started_at,
            expires_at |-> subs[i].expires_at,
            is_expired |-> t > subs[i].expires_at ] : i \in latest_active(subs, user_id)}

get_subscription_status(user_id) == get_subscription_status_at(subscriptions, user_id, now)


(***************************************************************************)
(* Requests of payment reconciliation.  Each handler is an operator from   *)
(* the tables it reads and its inputs to the result it returns and the     *)
(* tables it commits; the actions below apply them one after another.      *)
(***************************************************************************)

\* payment rows the model follows
MaxPayments == 1
\* last day the clock is followed to
MaxDay == 31

\* plans a caller may ask an order for: two that are sold and one that is not
PlanInputs == {"basic", "pro", "free"}

\* what the gateway may answer to a confirmation or a cancellation: HTTP 200,
\* another status, no answer within the timeout, or any other failure of the call
GatewayOutcomes == {"200", "rejected", "timeout", "error"}
CancelOutcomes == {"200", "rejected", "error"}

\* create_payment_order(user_id, plan) at time t: the result and the payments table
create_payment_order_outcome(pays, user_id, plan, t) ==
    LET order_id == make_order_id(user_id, plan, t)
    IN  IF plan \notin DOMAIN PLAN_PRICES
        THEN [result |-> "invalid_plan", payments |-> pays]
        ELSE IF order_rows(pays, order_id) # {}
        THEN \* UNIQUE(order_id): the INSERT raises IntegrityError
             [result |-> "raised", payments |-> pays]
        ELSE [result   |-> "success",
              order_id |-> order_id,
              amount   |-> PLAN_PRICES[plan],
              payments |-> Append(pays, [ user_id     |-> user_id,
                                          order_id    |-> order_id,
                                          payment_key |-> NULL,
                                          amount      |-> PLAN_PRICES[plan],
                                          plan        |-> plan,
                                          status      |-> "pending" ])]

create_payment_order(user_id, plan) ==
    LET out == create_payment_order_outcome(payments, user_id, plan, now)
    IN  /\ out.result = "success" => Len(payments) < MaxPayments
        /\ payments' = out.payments
        /\ UNCHANGED <<IS_POSTGRES, now, users, usage, generations, subscriptions,
                       conf, last, completed, jobs>>

\* the three writes of an approval (both branches of confirm_payment): the
\* payment, the user's plan, the subscription row
approve_writes(usrs, pays, subs, payment_key, order_id, user_id, plan, t) ==
    [ users         |-> users_set_plan(usrs, user_id, plan),
      payments      |-> payments_approve(pays, payment_key, order_id),
      subscriptions |-> subscriptions_insert(subs, user_id, plan, payment_key,
                                             order_id, t) ]

\* the test branch on PostgreSQL: INSERT ... ON CONFLICT (user_id, plan) names
\* columns that carry no unique constraint in init_db's subscriptions table, so
\* the statement raises; nothing is committed
test_insert_raises == IS_POSTGRES

\* confirm_payment after its checks passed, for the payment row p it read: the
\* result returned, whether the gateway was called, and the tables as committed
confirm_writes_upgrade_on_reject(usrs, pays, subs, payment_key, order_id, p, gw, t) ==
    LET same == [users |-> usrs, payments |-> pays, subscriptions |-> subs]
        done == approve_writes(usrs, pays, subs, payment_key, order_id,
                               p.user_id, p.plan, t)
    IN  IF is_test(payment_key)
        THEN IF test_insert_raises
             THEN [result |-> "raised", gateway |-> FALSE, db |-> same]
             ELSE [result |-> "success", gateway |-> FALSE, db |-> done]
        ELSE IF gw = "200"
             THEN [result |-> "success", gateway |-> TRUE, db |-> done]
             ELSE IF gw = "rejected"
             THEN [result |-> "gateway_error", gateway |-> TRUE,
                   db |-> [done EXCEPT !.payments = payments_fail(pays, order_id)]]
             ELSE [result |-> gw, gateway |-> TRUE, db |-> same]

confirm_writes(usrs, pays, subs, payment_key, order_id, p, gw, t) ==
    LET same == [users |-> usrs, payments |-> pays, subscriptions |-> subs]
        done == approve_writes(usrs, pays, subs, payment_key, order_id,
                               p.user_id, p.plan, t)
    IN  IF is_test(payment_key)
        THEN IF test_insert_raises
             THEN [result |-> "raised", gateway |-> FALSE, db |-> same]
             ELSE [result |-> "success", gateway |-> FALSE, db |-> done]
        ELSE IF gw = "200"
             THEN [result |-> "success", gateway |-> TRUE, db |-> done]
             ELSE IF gw = "rejected"
             THEN [result |-> "gateway_error", gateway |-> TRUE,
                   db |-> [same EXCEPT !.payments = payments_fail(pays, order_id)]]
             ELSE \* requests.exceptions.Timeout ("timeout"), any other
                  \* exception ("error"): the connection is closed, nothing written
                  [result |-> gw, gateway |-> TRUE, db |-> same]

\* confirm_payment(payment_key, order_id, amount) at time t, the gateway
\* answering gw if it is called
confirm_payment_outcome(usrs, pays, subs, payment_key, order_id, amount, gw, t) ==
    LET chk == confirm_check(pays, order_id, amount)
    IN  IF chk # "ok"
        THEN [result |-> chk, gateway |-> FALSE,
              db |-> [users |-> usrs, payments |-> pays, subscriptions |-> subs]]
        ELSE confirm_writes(usrs, pays, subs, payment_key, order_id,
                            pays[CHOOSE i \in order_rows(pays, order_id) : TRUE],
                            gw, t)

confirm_payment(payment_key, order_id, amount, gw) ==
    LET out == confirm_payment_outcome(users, payments, subscriptions,
                                       payment_key, order_id, amount, gw, now)
    IN  /\ users' = out.db.users
        /\ payments' = out.db.payments
        /\ subscriptions' = out.db.subscriptions
        /\ UNCHANGED <<IS_POSTGRES, now, usage, generations, conf, last, completed, jobs>>

\* cancel_payment(payment_key), the gateway answering gw: the outcomes it may
\* have.  After the UPDATE of the payments, SELECT user_id ... WHERE
\* payment_key = ? with fetchone() yields one of the rows carrying the key.
cancel_payment_outcomes(usrs, pays, subs, payment_key, gw) ==
    LET keyed     == rows_by_key(pays, payment_key)
        cancelled == set_status(pays, keyed, "cancelled")
    IN  IF gw = "200"
        THEN IF keyed = {}
             THEN {[result |-> "success",
                    db |-> [users |-> usrs, payments |-> cancelled,
                            subscriptions |-> subs]]}
             ELSE {[result |-> "success",
                    db |-> [users |-> users_set_plan(usrs, pays[i].user_id, "free"),
                            payments |-> cancelled,
                            subscriptions |->
                                set_status(subs, rows_by_key(subs, payment_key),
                                           "cancelled")]]
                      : i \in keyed}
        ELSE {[result |-> IF gw = "rejected" THEN "gateway_error" ELSE "error",
               db |-> [users |-> usrs, payments |-> pays, subscriptions |-> subs]]}

cancel_payment(payment_key, gw) ==
    \E out \in cancel_payment_outcomes(users, payments, subscriptions, payment_key, gw) :
        /\ users' = out.db.users
        /\ payments' = out.db.payments
        /\ subscriptions' = out.db.subscriptions
        /\ UNCHANGED <<IS_POSTGRES, now, usage, generations, conf, last, completed, jobs>>

\* the UPDATE handle_webhook issues for a gateway status
webhook_update_toggle_cancel(pays, payment_key, status) ==
    IF status = "DONE"
    THEN set_status(pays, rows_by_key(pays, payment_key), "approved")
    ELSE IF status = "CANCELED"
    THEN [i \in DOMAIN pays |->
            IF sql_eq(pays[i].payment_key, payment_key)
            THEN [pays[i] EXCEPT !.status = IF @ = "cancelled" THEN "approved"
                                                               ELSE "cancelled"]
            ELSE pays[i]]
    ELSE IF status = "EXPIRED"
    THEN set_status(pays, rows_by_key(pays, payment_key), "expired")
    ELSE pays

webhook_update(pays, payment_key, status) ==
    IF status = "DONE"
    THEN set_status(pays, rows_by_key(pays, payment_key), "approved")
    ELSE IF status = "CANCELED"
    THEN set_status(pays, rows_by_key(pays, payment_key), "cancelled")
    ELSE IF status = "EXPIRED"
    THEN set_status(pays, rows_by_key(pays, payment_key), "expired")
    ELSE pays

\* handle_webhook(payload): the result and the tables
handle_webhook_outcome(usrs, pays, subs, event_type, payment_key, status) ==
    IF event_type = "PAYMENT_STATUS_CHANGED"
    THEN [result |-> "processed",
          db |-> [users |-> usrs,
                  payments |-> webhook_update(pays, payment_key, status),
                  subscriptions |-> subs]]
    ELSE [result |-> "received",
          db |-> [users |-> usrs, payments |-> pays, subscriptions |-> subs]]

\* payloads the gateway may push: <<eventType, paymentKey, status>>
WebhookInputs ==
    {<<"PAYMENT_STATUS_CHANGED", k, st>> :
        k \in PaymentKeys, st \in {"DONE", "CANCELED", "EXPIRED"}}
    \cup {<<"PAYMENT_STATUS_CHANGED", "tviva_1", "IN_PROGRESS">>,
          <<"PAYMENT_STATUS_CHANGED", NULL, "DONE">>,
          <<"DEPOSIT_CALLBACK", "tviva_1", "DONE">>}

handle_webhook(event_type, payment_key, status) ==
    LET out == handle_webhook_outcome(users, payments, subscriptions,
                                      event_type, payment_key, status)
    IN  /\ users' = out.db.users
        /\ payments' = out.db.payments
        /\ subscriptions' = out.db.subscriptions
        /\ UNCHANGED <<IS_POSTGRES, now, usage, generations, conf, last, completed, jobs>>

\* the subscription period and a day more pass
PassPeriod ==
    /\ CURRENT_DATE(now) + SUBSCRIPTION_DAYS + 1 <= MaxDay
    /\ now' = now + (SUBSCRIPTION_DAYS + 1) * DAY
    /\ UNCHANGED <<IS_POSTGRES, tables, conf, last, completed, jobs>>

\* two registered users on the free plan, no order yet
Init ==
    /\ IS_POSTGRES \in BOOLEAN
    /\ now = 0
    /\ users = [u \in Users |-> [plan |-> "free"]]
    /\ usage = [k \in {<<u, CURRENT_DATE(0)>> : u \in Users} |-> 0]
    /\ generations = <<>>
    /\ payments = <<>>
    /\ subscriptions = <<>>
    /\ conf = NoCalls
    /\ last = [op |-> "init"]
    /\ completed = [u \in Users |-> 0]
    /\ jobs = NoCalls

\* order ids a caller may send: those of the orders made, and an unknown one
OrderInputs == {payments[i].order_id : i \in DOMAIN payments} \cup {UnknownOrder}

\* amounts a caller may send to confirm_payment for an order: the order's
\* price, the price with 10% tax, the amount after it, and 1
AmountInputs(order_id) ==
    {1} \cup UNION {{payments[i].amount,
                     payments[i].amount + vat(payments[i].amount),
                     payments[i].amount + vat(payments[i].amount) + 1}
                        : i \in order_rows(payments, order_id)}

\* the gateway answers only a call that is made
GatewayAnswers(payment_key, order_id, amount) ==
    IF confirm_check(payments, order_id, amount) = "ok" /\ ~is_test(payment_key)
    THEN GatewayOutcomes
    ELSE {"not_called"}

Next ==
    \/ \E u \in Users, plan \in PlanInputs : create_payment_order(u, plan)
    \/ \E k \in PaymentKeys, o \in OrderInputs :
          \E a \in AmountInputs(o) :
             \E gw \in GatewayAnswers(k, o, a) : confirm_payment(k, o, a, gw)
    \/ \E k \in PaymentKeys, gw \in CancelOutcomes : cancel_payment(k, gw)
    \/ \E w \in WebhookInputs : handle_webhook(w[1], w[2], w[3])
    \/ PassPeriod

Spec == Init /\ [][Next]_vars

(***************************************************************************)
(* confirm_payment calls running concurrently (the server handles each     *)
(* request on its own thread, each call opens its own connection).  A call *)
(* reads the order and checks it, calls the gateway unless the key is a    *)
(* test key, then writes and commits; the writes of one call are one       *)
(* transaction.                                                            *)
(***************************************************************************)
Procs == {1, 2}

\* lines 77-106: the SELECT and the checks
ConfirmBegin(p, payment_key, order_id, amount) ==
    /\ conf[p].pc \in {"idle", "returned"}
    /\ LET chk == confirm_check(payments, order_id, amount)
       IN  conf' = [conf EXCEPT ![p] =
                IF chk # "ok"
                THEN [pc |-> "returned", order_id |-> order_id, result |-> chk]
                ELSE [pc          |-> "checked",
                      payment_key |-> payment_key,
                      order_id    |-> order_id,
                      row         |-> payments[CHOOSE i \in order_rows(payments, order_id) : TRUE],
                      gw          |-> "not_called"]]
    /\ UNCHANGED <<IS_POSTGRES, now, tables, last, completed, jobs>>

\* lines 151-165: the gateway answers the call
ConfirmCall(p, gw) ==
    /\ conf[p].pc = "checked"
    /\ ~is_test(conf[p].payment_key)
    /\ conf' = [conf EXCEPT ![p].pc = "answered", ![p].gw = gw]
    /\ UNCHANGED <<IS_POSTGRES, now, tables, last, completed, jobs>>

\* lines 113-147 (test key) and 167-211: the writes, the commit and the return
ConfirmCommit(p) ==
    /\ \/ conf[p].pc = "checked" /\ is_test(conf[p].payment_key)
       \/ conf[p].pc = "answered"
    /\ LET c   == conf[p]
           out == confirm_writes(users, payments, subscriptions, c.payment_key,
                                 c.order_id, c.row, c.gw, now)
       IN  /\ users' = out.db.users
           /\ payments' = out.db.payments
           /\ subscriptions' = out.db.subscriptions
           /\ conf' = [conf EXCEPT ![p] =
                    [pc |-> "returned", order_id |-> c.order_id, result |-> out.result]]
    /\ UNCHANGED <<IS_POSTGRES, now, usage, generations, last, completed, jobs>>

InitConc ==
    /\ IS_POSTGRES \in BOOLEAN
    /\ now = 0
    /\ users = [u \in Users |-> [plan |-> "free"]]
    /\ usage = [k \in {<<u, CURRENT_DATE(0)>> : u \in Users} |-> 0]
    /\ generations = <<>>
    /\ payments = <<>>
    /\ subscriptions = <<>>
    /\ conf = [p \in Procs |-> [pc |-> "idle"]]
    /\ last = [op |-> "init"]
    /\ completed = [u \in Users |-> 0]
    /\ jobs = NoCalls

NextConc ==
    \/ \E u \in Users, plan \in PlanInputs :
          create_payment_order(u, plan) /\ UNCHANGED conf
    \/ \E p \in Procs, k \in PaymentKeys, o \in OrderInputs :
          \E a \in AmountInputs(o) : ConfirmBegin(p, k, o, a)
    \/ \E p \in Procs, gw \in GatewayOutcomes : ConfirmCall(p, gw)
    \/ \E p \in Procs : ConfirmCommit(p)

SpecConc == InitConc /\ [][NextConc]_vars

(***************************************************************************)
(* Subscription ledger and plan changes, auth.py and server.py.            *)
(***************************************************************************)

\* subscription rows the model follows
MaxSubscriptions == 2

\* plan values a caller may hand to update_user_plan and to the admin
\* endpoints: a paid plan, free, and one that is not in the catalog
PlanValues == {"basic", "free", "gold"}

\* update_user_plan(user_id, plan, payment_key, order_id) at time t
update_user_plan_outcome(usrs, subs, user_id, plan, payment_key, order_id, t) ==
    IF plan \notin DOMAIN PLANS
    THEN [result |-> "invalid_plan", db |-> [users |-> usrs, subscriptions |-> subs]]
    ELSE [result |-> "success",
          db |-> [users |-> users_set_plan(usrs, user_id, plan),
                  subscriptions |-> subscriptions_insert(subs, user_id, plan,
                                                         payment_key, order_id, t)]]

update_user_plan(user_id, plan) ==
    LET out == update_user_plan_outcome(users, subscriptions, user_id, plan,
                                        NULL, NULL, now)
    IN  /\ out.result = "success" => Len(subscriptions) < MaxSubscriptions
        /\ users' = out.db.users
        /\ subscriptions' = out.db.subscriptions
        /\ UNCHANGED <<IS_POSTGRES, now, usage, generations, payments, conf, last,
                       completed, jobs>>

\* the user's rows with status active
active_rows(subs, user_id) ==
    {i \in DOMAIN subs : subs[i].user_id = user_id /\ subs[i].status = "active"}

\* cancel_subscription without its UPDATE of the subscriptions
cancel_subscription_plan_only(usrs, subs, user_id) ==
    IF user_id \notin DOMAIN usrs
    THEN [result |-> "user_not_found", db |-> [users |-> usrs, subscriptions |-> subs]]
    ELSE IF usrs[user_id].plan = "free"
    THEN [result |-> "already_free", db |-> [users |-> usrs, subscriptions |-> subs]]
    ELSE [result |-> "success",
          db |-> [users |-> users_set_plan(usrs, user_id, "free"),
                  subscriptions |-> subs]]

\* cancel_subscription(user_id)
cancel_subscription_outcome(usrs, subs, user_id) ==
    IF user_id \notin DOMAIN usrs
    THEN [result |-> "user_not_found", db |-> [users |-> usrs, subscriptions |-> subs]]
    ELSE IF usrs[user_id].plan = "free"
    THEN [result |-> "already_free", db |-> [users |-> usrs, subscriptions |-> subs]]
    ELSE [result |-> "success",
          db |-> [users |-> users_set_plan(usrs, user_id, "free"),
                  subscriptions |-> set_status(subs, active_rows(subs, user_id),
                                               "cancelled")]]

cancel_subscription(user_id) ==
    LET out == cancel_subscription_outcome(users, subscriptions, user_id)
    IN  /\ users' = out.db.users
        /\ subscriptions' = out.db.subscriptions
        /\ UNCHANGED <<IS_POSTGRES, now, usage, generations, payments, conf, last,
                       completed, jobs>>

\* fields admin_update_user writes
allowed_fields == {"plan", "is_active", "is_admin", "name"}

\* admin_update_user(admin_id, user_id, updates): updates is a record; each
\* allowed field it carries is written to the row as given
admin_update_user_outcome(usrs, user_id, updates) ==
    IF user_id \notin DOMAIN usrs
    THEN [result |-> "user_not_found", users |-> usrs]
    ELSE IF DOMAIN updates \cap allowed_fields = {}
    THEN [result |-> "no_fields", users |-> usrs]
    ELSE [result |-> "success",
          users |-> [u \in DOMAIN usrs |->
                        IF u # user_id THEN usrs[u]
                        ELSE [f \in DOMAIN usrs[u] |->
                                 IF f \in DOMAIN updates \cap allowed_fields
                                 THEN updates[f] ELSE usrs[u][f]]]]

\* PUT /api/admin/users/<id>, sent by an administrator
api_admin_update_user(user_id, updates) ==
    /\ users' = admin_update_user_outcome(users, user_id, updates).users
    /\ UNCHANGED <<IS_POSTGRES, now, usage, generations, payments, subscriptions,
                   conf, last, completed, jobs>>

\* PUT /api/admin/users/<id>/plan, sent by an administrator
api_admin_change_plan_outcome(usrs, user_id, plan) ==
    IF plan = NULL \/ plan \notin DOMAIN PLANS
    THEN [result |-> "invalid_plan", users |-> usrs]
    ELSE admin_update_user_outcome(usrs, user_id, [plan |-> plan])

api_admin_change_plan(user_id, plan) ==
    /\ users' = api_admin_change_plan_outcome(users, user_id, plan).users
    /\ UNCHANGED <<IS_POSTGRES, now, usage, generations, payments, subscriptions,
                   conf, last, completed, jobs>>

\* the gateway approves what it is asked
ApprovedAnswers(payment_key, order_id, amount) ==
    GatewayAnswers(payment_key, order_id, amount) \cap {"200", "not_called"}

NextSub ==
    \/ \E u \in Users, plan \in PlanValues : update_user_plan(u, plan)
    \/ \E u \in Users : create_payment_order(u, "pro")
    \/ \E k \in PaymentKeys, o \in OrderInputs :
          \E a \in {payments[i].amount : i \in order_rows(payments, o)} :
             \E gw \in ApprovedAnswers(k, o, a) :
                /\ Len(subscriptions) < MaxSubscriptions
                /\ confirm_payment(k, o, a, gw)
    \/ \E k \in PaymentKeys, gw \in {"200", "rejected"} : cancel_payment(k, gw)
    \/ \E u \in Users : cancel_subscription(u)

SpecSub == Init /\ [][NextSub]_vars


(***************************************************************************)
(* Credential store and session tokens, auth.py.  In SpecAuth the users    *)
(* table is the sequence of its rows, the id of a row being its position   *)
(* (ids are handed out in order and no row is ever deleted); a row carries *)
(* email, password_hash, plan, is_active, is_admin, created_at and         *)
(* last_login (<<>> while NULL, <<t>> once set to time t).                 *)
(***************************************************************************)

\* user rows the model follows
MaxUsers == 2

\* JWT_EXPIRY_HOURS (7 days)
JWT_EXPIRY_HOURS == 24 * 7

\* emails a caller may send; nobody ever registers the last one
Emails == {"a@x.com", "b@x.com"}
LoginEmails == Emails \cup {"nobody@x.com"}

\* passwords a caller may send: of 7, 8 and 9 characters
Passwords == {"1234567", "12345678", "password1"}

\* hashlib.sha256(f"{password}{salt}").hexdigest(): the digest stands for its
\* preimage (no two preimages of the model share a digest)
hash_password(password) == <<"sha256", password \o "kampai_salt_2025">>

verify_password(password, password_hash) == hash_password(password) = password_hash

\* create_token(user_id, email) at time t: the signed payload
create_token(user_id, email, t) ==
    [signed |-> TRUE, user_id |-> user_id, email |-> email,
     exp |-> t + JWT_EXPIRY_HOURS * 60 * 60]

\* verify_token(token) at time t: whether jwt.decode returns the payload
\* (the signature is the server's and exp is still ahead)
verify_token(token, t) == token.signed /\ t < token.exp

\* the rows of users with the email
rows_by_email(usrs, email) == {i \in DOMAIN usrs : usrs[i].email = email}

\* INSERT OR IGNORE INTO usage (user_id, date, generation_count)
\* VALUES (?, DATE('now'), 0) / ON CONFLICT (user_id, date) DO NOTHING
usage_init(us, user_id, t) ==
    IF <<user_id, CURRENT_DATE(t)>> \in DOMAIN us THEN us
    ELSE (<<user_id, CURRENT_DATE(t)>> :> 0) @@ us

\* register_user without the check of the email
register_user_no_duplicate_check(usrs, us, email, password, t) ==
    IF Len(password) < 8
    THEN [result |-> "weak_password", users |-> usrs, usage |-> us]
    ELSE [result  |-> "success",
          user_id |-> Len(usrs) + 1,
          token   |-> create_token(Len(usrs) + 1, email, t),
          users   |-> Append(usrs, [ email         |-> email,
                                     password_hash |-> hash_password(password),
                                     plan          |-> "free",
                                     is_active     |-> TRUE,
                                     is_admin      |-> FALSE,
                                     created_at    |-> t,
                                     last_login    |-> <<>> ]),
          usage   |-> usage_init(us, Len(usrs) + 1, t)]

\* register_user(email, password) at time t
register_user_outcome(usrs, us, email, password, t) ==
    IF Len(password) < 8
    THEN [result |-> "weak_password", users |-> usrs, usage |-> us]
    ELSE IF rows_by_email(usrs, email) # {}
    THEN [result |-> "duplicate_email", users |-> usrs, usage |-> us]
    ELSE [result  |-> "success",
          user_id |-> Len(usrs) + 1,
          token   |-> create_token(Len(usrs) + 1, email, t),
          users   |-> Append(usrs, [ email         |-> email,
                                     password_hash |-> hash_password(password),
                                     plan          |-> "free",
                                     is_active     |-> TRUE,
                                     is_admin      |-> FALSE,
                                     created_at    |-> t,
                                     last_login    |-> <<>> ]),
          usage   |-> usage_init(us, Len(usrs) + 1, t)]

register_user(email, password) ==
    LET out == register_user_outcome(users, usage, email, password, now)
    IN  /\ out.result = "success" => Len(users) < MaxUsers
        /\ users' = out.users
        /\ usage' = out.usage
        /\ UNCHANGED <<IS_POSTGRES, now, generations, payments, subscriptions, conf,
                       last, completed, jobs>>

\* login_user that takes any password
login_user_any_password(usrs, email, password, t) ==
    IF rows_by_email(usrs, email) = {}
    THEN [result |-> "invalid_credentials", users |-> usrs]
    ELSE LET id == CHOOSE i \in rows_by_email(usrs, email) : TRUE
         IN  IF ~usrs[id].is_active
             THEN [result |-> "account_disabled", users |-> usrs]
             ELSE [result |-> "success",
                   user   |-> [id |-> id, email |-> usrs[id].email,
                               plan |-> usrs[id].plan],
                   token  |-> create_token(id, usrs[id].email, t),
                   users  |-> [usrs EXCEPT ![id].last_login = <<t>>]]

\* login_user(email, password) at time t (email is UNIQUE: at most one row)
login_user_outcome(usrs, email, password, t) ==
    IF rows_by_email(usrs, email) = {}
    THEN [result |-> "invalid_credentials", users |-> usrs]
    ELSE LET id == CHOOSE i \in rows_by_email(usrs, email) : TRUE
         IN  IF ~usrs[id].is_active
             THEN [result |-> "account_disabled", users |-> usrs]
             ELSE IF ~verify_password(password, usrs[id].password_hash)
             THEN [result |-> "invalid_credentials", users |-> usrs]
             ELSE [result |-> "success",
                   user   |-> [id |-> id, email |-> usrs[id].email,
                               plan |-> usrs[id].plan],
                   token  |-> create_token(id, usrs[id].email, t),
                   users  |-> [usrs EXCEPT ![id].last_login = <<t>>]]

login_user(email, password) ==
    /\ users' = login_user_outcome(users, email, password, now).users
    /\ UNCHANGED <<IS_POSTGRES, now, usage, generations, payments, subscriptions,
                   conf, last, completed, jobs>>

\* token_required for a request carrying the token: the 401 answer, or the
\* identity attached to the request
token_required(usrs, token, t) ==
    IF ~verify_token(token, t)
    THEN [status |-> "401", error |-> "invalid_token"]
    ELSE IF token.user_id \notin DOMAIN usrs
    THEN [status |-> "401", error |-> "user_not_found"]
    ELSE IF ~usrs[token.user_id].is_active
    THEN [status |-> "401", error |-> "account_disabled"]
    ELSE [status |-> "ok",
          user   |-> [id |-> token.user_id, email |-> usrs[token.user_id].email,
                      plan |-> usrs[token.user_id].plan]]

\* admin_required for a request carrying the token
admin_required(usrs, token, t) ==
    IF ~verify_token(token, t)
    THEN [status |-> "401", error |-> "invalid_token"]
    ELSE IF token.user_id \notin DOMAIN usrs
    THEN [status |-> "401", error |-> "user_not_found"]
    ELSE IF ~usrs[token.user_id].is_active
    THEN [status |-> "401", error |-> "account_disabled"]
    ELSE IF ~usrs[token.user_id].is_admin
    THEN [status |-> "403", error |-> "admin_required"]
    ELSE [status |-> "ok",
          user   |-> [id |-> token.user_id, email |-> usrs[token.user_id].email,
                      plan |-> usrs[token.user_id].plan, is_admin |-> TRUE]]

\* optional_token for a request carrying the token: request.user, with
\* attached FALSE where the code leaves it None
optional_token(usrs, token, t) ==
    IF verify_token(token, t) /\ token.user_id \in DOMAIN usrs
    THEN [attached |-> TRUE,
          user     |-> [id |-> token.user_id, email |-> usrs[token.user_id].email,
                        plan |-> usrs[token.user_id].plan]]
    ELSE [attached |-> FALSE]

\* no user is registered
InitAuth ==
    /\ IS_POSTGRES \in BOOLEAN
    /\ now = 0
    /\ users = <<>>
    /\ usage = [k \in {} |-> 0]
    /\ generations = <<>>
    /\ payments = <<>>
    /\ subscriptions = <<>>
    /\ conf = NoCalls
    /\ last = [op |-> "init"]
    /\ completed = [u \in Users |-> 0]
    /\ jobs = NoCalls

\* bodies an administrator may send to PUT /api/admin/users/<id>
AdminUpdates ==
    {[is_active |-> FALSE], [is_active |-> TRUE], [plan |-> "basic"], [plan |-> "gold"]}

NextAuth ==
    \/ \E email \in Emails, password \in Passwords : register_user(email, password)
    \/ \E email \in LoginEmails, password \in Passwords : login_user(email, password)
    \/ \E u \in DOMAIN users, updates \in AdminUpdates : api_admin_update_user(u, updates)
    \/ \E u \in DOMAIN users, plan \in PlanValues : api_admin_change_plan(u, plan)
    \/ NewDay

SpecAuth == InitAuth /\ [][NextAuth]_vars

(***************************************************************************)
(* Registrations in flight, auth.py register_user.  A call reads the users *)
(* table (the SELECT by email) and later writes it (the INSERTs and the    *)
(* commit); between the two any other request may run.  The column email   *)
(* is UNIQUE, so the INSERT of an email that has been taken since the      *)
(* SELECT raises IntegrityError / UniqueViolation; register_user and       *)
(* api_register have no handler for it.  increment_usage is one            *)
(* transaction around one upsert statement, which the database applies     *)
(* atomically under UNIQUE(user_id, date).                                 *)
(***************************************************************************)

\* passwords sent by the registrations in flight: of 7 and 8 characters
RacePasswords == {"1234567", "12345678"}

Idle == [pc |-> "idle"]

\* the INSERTs of register_user and the commit, on the tables as they are
\* when the statement runs
register_user_insert(usrs, us, email, password, t) ==
    IF rows_by_email(usrs, email) # {}
    THEN [result |-> "raised", users |-> usrs, usage |-> us]
    ELSE register_user_outcome(usrs, us, email, password, t)

\* register_user up to the SELECT by email: returns on a short password or a
\* taken email, goes on to the INSERT otherwise
RegisterBegin(p, email, password) ==
    /\ conf[p].pc = "idle"
    /\ LET out == register_user_outcome(users, usage, email, password, now)
       IN  conf' = [conf EXCEPT ![p] =
                       IF out.result = "success"
                       THEN [pc |-> "checked", email |-> email, password |-> password]
                       ELSE [pc |-> "returned", email |-> email,
                             result |-> out.result]]
    /\ UNCHANGED <<IS_POSTGRES, now, tables, last, completed, jobs>>

\* register_user from the INSERT on
RegisterInsert(p) ==
    /\ conf[p].pc = "checked"
    /\ LET out == register_user_insert(users, usage, conf[p].email, conf[p].password, now)
       IN  /\ users' = out.users
           /\ usage' = out.usage
           /\ conf' = [conf EXCEPT ![p] = [pc |-> "returned", email |-> conf[p].email,
                                           result |-> out.result]]
    /\ UNCHANGED <<IS_POSTGRES, now, generations, payments, subscriptions, last,
                   completed, jobs>>

\* GET /api/auth/usage: get_user_usage(user_id)
api_usage(u) ==
    /\ last' = [op |-> "api_usage", user |-> u,
                today_count |-> get_user_usage(u).today_count,
                can_generate |-> get_user_usage(u).can_generate]
    /\ UNCHANGED <<IS_POSTGRES, now, tables, conf, completed, jobs>>

\* GET /api/subscription: get_subscription_status(user_id), then get_user_usage
api_subscription(u) ==
    /\ \E st \in get_subscription_status(u) :
            last' = [op |-> "api_subscription", user |-> u, plan |-> st.plan,
                     today_count |-> get_user_usage(u).today_count]
    /\ UNCHANGED <<IS_POSTGRES, now, tables, conf, completed, jobs>>

InitReg ==
    /\ IS_POSTGRES \in BOOLEAN
    /\ now = 0
    /\ users = <<>>
    /\ usage = [k \in {} |-> 0]
    /\ generations = <<>>
    /\ payments = <<>>
    /\ subscriptions = <<>>
    /\ conf = [p \in Procs |-> Idle]
    /\ last = [op |-> "init"]
    /\ completed = [u \in Users |-> 0]
    /\ jobs = NoCalls

NextReg ==
    \/ \E p \in Procs, email \in Emails, password \in RacePasswords :
            RegisterBegin(p, email, password)
    \/ \E p \in Procs : RegisterInsert(p)
    \/ \E u \in DOMAIN users : api_record_usage(u)
    \/ \E u \in DOMAIN users : api_check_generate(u)
    \/ \E u \in DOMAIN users : api_usage(u)
    \/ \E u \in DOMAIN users : api_subscription(u)
    \/ NewDay

SpecReg == InitReg /\ [][NextReg]_vars

(***************************************************************************)
(* Image generation in production, server.py generate_with_replicate_api   *)
(* with the model tables of auth.py PLANS and replicate_api.py.            *)
(***************************************************************************)

\* PLANS[plan]["model"]
PLAN_DEFAULT_MODEL ==
    [free |-> "flux-schnell", basic |-> "flux-schnell",
     pro |-> "qwen-image", business |-> "qwen-image"]

\* int(PLANS[plan]["resolution"].split("x")[0])
PLAN_RESOLUTION ==
    [free |-> 1024, basic |-> 1024, pro |-> 2048, business |-> 2048]

\* replicate_api.py PLAN_AVAILABLE_MODELS
PLAN_AVAILABLE_MODELS ==
    [free     |-> {"flux-schnell"},
     basic    |-> {"flux-schnell"},
     pro      |-> {"qwen-image", "flux-2-pro", "flux-1.1-pro-ultra"},
     business |-> {"qwen-image", "flux-2-pro", "flux-1.1-pro-ultra"}]

\* PLAN_AVAILABLE_MODELS.get(plan, ["flux-schnell"])
available_models(plan) ==
    IF plan \in DOMAIN PLAN_AVAILABLE_MODELS THEN PLAN_AVAILABLE_MODELS[plan]
    ELSE {"flux-schnell"}

\* plan_info.get("model", "flux-schnell") with plan_info = PLANS.get(plan, PLANS["free"])
default_model(plan) ==
    IF plan \in DOMAIN PLAN_DEFAULT_MODEL THEN PLAN_DEFAULT_MODEL[plan]
    ELSE PLAN_DEFAULT_MODEL["free"]

\* the first number of plan_info.get("resolution", "1024x1024")
max_res(plan) ==
    IF plan \in DOMAIN PLAN_RESOLUTION THEN PLAN_RESOLUTION[plan]
    ELSE PLAN_RESOLUTION["free"]

min(a, b) == IF a <= b THEN a ELSE b

\* what a request may carry: a model (NULL when none is chosen), sizes in
\* pixels, and the state of the two backends when the request arrives
ModelInputs == {NULL, "flux-schnell", "flux-2-pro", "flux-1.1-pro"}
SizeInputs == {512, 2048, 4096}
BackendStates == {"replicate", "comfyui_only", "none"}
StoredPlans == PlanTags \cup {"gold"}

\* generate_with_replicate_api(prompt, plan, width, height, selected_model,
\* input_image, edit_mode, reference_mode) up to the call of the backend:
\* which backend is called and with which model and size
generate_with_replicate_api(plan, width, height, selected_model, input_image, edit_mode, reference_mode, backends) ==
    IF backends = "comfyui_only"
    THEN \* status not available and ComfyUI running:
         \* generate_with_comfyui(prompt, "custom", width, height)
         [result |-> "sent", engine |-> "ComfyUI", model |-> "comfyui",
          width |-> width, height |-> height]
    ELSE IF backends = "none"
    THEN [result |-> "unavailable"]
    ELSE LET chosen == IF selected_model # NULL /\ selected_model \in available_models(plan)
                       THEN selected_model ELSE default_model(plan)
             editing == (edit_mode \/ reference_mode) /\ input_image
         IN  IF editing /\ chosen # "flux-2-pro" /\ "flux-2-pro" \notin available_models(plan)
             THEN [result |-> "forbidden"]
             ELSE [result |-> "sent", engine |-> "Replicate",
                   model  |-> IF editing THEN "flux-2-pro" ELSE chosen,
                   width  |-> min(width, max_res(plan)),
                   height |-> min(height, max_res(plan))]

\* POST /api/generate with a prompt, for a request carrying u's token, on a
\* server with the Replicate token configured
Generate(u, width, height, selected_model, input_image, edit_mode, reference_mode, backends) ==
    /\ last' = [op |-> "generate", user |-> u, plan |-> users[u].plan,
                edit |-> (edit_mode \/ reference_mode) /\ input_image,
                width |-> width, height |-> height,
                out |-> generate_with_replicate_api(users[u].plan, width, height,
                            selected_model, input_image, edit_mode, reference_mode,
                            backends)]
    /\ UNCHANGED <<IS_POSTGRES, now, tables, conf, completed, jobs>>

\* the users hold a plan tag, which may be one outside the catalog
InitGen ==
    /\ IS_POSTGRES = FALSE
    /\ now = 0
    /\ users \in {[u \in Users |-> [plan |-> plan]] : plan \in StoredPlans}
    /\ usage = [k \in {<<u, CURRENT_DATE(0)>> : u \in Users} |-> 0]
    /\ generations = <<>>
    /\ payments = <<>>
    /\ subscriptions = <<>>
    /\ conf = NoCalls
    /\ last = [op |-> "init"]
    /\ completed = [u \in Users |-> 0]
    /\ jobs = NoCalls

NextGen ==
    \E u \in Users, width \in SizeInputs, height \in SizeInputs,
       selected_model \in ModelInputs, input_image \in BOOLEAN,
       edit_mode \in BOOLEAN, reference_mode \in BOOLEAN, backends \in BackendStates :
        Generate(u, width, height, selected_model, input_image, edit_mode,
                 reference_mode, backends)

SpecGen == InitGen /\ [][NextGen]_vars

(***************************************************************************)
(* Generation requests that ask before they record: the client calls       *)
(* GET /api/generate/check (check_can_generate) and, when the answer is    *)
(* can_generate, POST /api/usage/record (increment_usage).  The two calls  *)
(* are separate requests; requests of other clients run between them.      *)
(***************************************************************************)

\* requests that may be in flight together
MaxInFlight == 2

\* the user whose requests are followed
QuotaUsers == {1}

\* GET /api/generate/check of a request
RequestCheck(p, u) ==
    /\ conf[p].pc = "idle"
    /\ conf' = [conf EXCEPT ![p] = [pc |-> "checked", user |-> u,
                                    can_generate |-> check_can_generate(u).can_generate]]
    /\ UNCHANGED <<IS_POSTGRES, now, tables, last, completed, jobs>>

\* POST /api/usage/record of a request that was told it can generate:
\* increment_usage(user_id, action)
RequestRecord(p) ==
    /\ conf[p].pc = "checked"
    /\ conf[p].can_generate
    /\ usage' = usage_upsert(usage, conf[p].user, now)
    /\ generations' = generations_append(generations, conf[p].user, "generate", NULL)
    /\ completed' = [completed EXCEPT ![conf[p].user] = @ + 1]
    /\ conf' = [conf EXCEPT ![p] = Idle]
    /\ UNCHANGED <<IS_POSTGRES, now, users, payments, subscriptions, last, jobs>>

\* a request that was told it cannot generate ends there
RequestRefused(p) ==
    /\ conf[p].pc = "checked"
    /\ ~conf[p].can_generate
    /\ conf' = [conf EXCEPT ![p] = Idle]
    /\ UNCHANGED <<IS_POSTGRES, now, tables, last, completed, jobs>>

\* midnight passes while requests are in flight
Midnight ==
    /\ CURRENT_DATE(now) < MaxUsageDay
    /\ now' = (CURRENT_DATE(now) + 1) * DAY
    /\ completed' = [u \in Users |-> 0]
    /\ UNCHANGED <<IS_POSTGRES, tables, conf, last, jobs>>

\* free users registered today, and between 1 and MaxInFlight request slots
InitQuota ==
    /\ IS_POSTGRES \in BOOLEAN
    /\ now = 0
    /\ users = [u \in Users |-> [plan |-> "free"]]
    /\ usage = [k \in {<<u, CURRENT_DATE(0)>> : u \in Users} |-> 0]
    /\ generations = <<>>
    /\ payments = <<>>
    /\ subscriptions = <<>>
    /\ conf \in {[p \in 1..k |-> Idle] : k \in 1..MaxInFlight}
    /\ last = [op |-> "init"]
    /\ completed = [u \in Users |-> 0]
    /\ jobs = NoCalls

NextQuota ==
    \/ \E p \in DOMAIN conf, u \in QuotaUsers : RequestCheck(p, u)
    \/ \E p \in DOMAIN conf : RequestRecord(p)
    \/ \E p \in DOMAIN conf : RequestRefused(p)
    \/ Midnight

SpecQuota == InitQuota /\ [][NextQuota]_vars

(***************************************************************************)
(* Background jobs, server.py generate_product, generate_thumb and         *)
(* job_status.  A job is a directory output/<job_id> made by the request   *)
(* and a worker thread that calls the vendor and then writes result.json   *)
(* into it: open(result_file, 'w') creates the file empty, json.dump and   *)
(* the end of the with block fill it.  job_status reads the directory and  *)
(* the file without any lock.  A job is followed as the record of its      *)
(* kind, the worker's position pc, the vendor calls left, whether a vendor *)
(* call raised, and the file: "absent", "empty", or the status written.    *)
(***************************************************************************)

\* jobs the model follows
MaxJobs == 2
\* images a product job may be asked for (the code allows up to 10)
MaxCount == 2

JobIds == 1..MaxJobs

\* the thread started by generate_product / generate_thumb
start_job(kind, count) ==
    [kind |-> kind, pc |-> "vendor", left |-> count, raised |-> FALSE,
     file |-> "absent"]

\* POST /api/generate/product: 503 when ComfyUI is not running, otherwise
\* makes the directory of a fresh job id and starts the worker
generate_product(count, comfy_running) ==
    LET job_id == Cardinality(DOMAIN jobs) + 1
    IN  /\ job_id \in JobIds
        /\ jobs' = IF comfy_running THEN (job_id :> start_job("product", count)) @@ jobs
                   ELSE jobs
        /\ last' = IF comfy_running
                   THEN [op |-> "generate_product", result |-> "success", job_id |-> job_id]
                   ELSE [op |-> "generate_product", result |-> "unavailable"]
        /\ UNCHANGED <<IS_POSTGRES, now, tables, conf, completed>>

\* POST /api/generate/thumbnail
generate_thumb(comfy_running) ==
    LET job_id == Cardinality(DOMAIN jobs) + 1
    IN  /\ job_id \in JobIds
        /\ jobs' = IF comfy_running THEN (job_id :> start_job("thumbnail", 1)) @@ jobs
                   ELSE jobs
        /\ last' = IF comfy_running
                   THEN [op |-> "generate_thumb", result |-> "success", job_id |-> job_id]
                   ELSE [op |-> "generate_thumb", result |-> "unavailable"]
        /\ UNCHANGED <<IS_POSTGRES, now, tables, conf, completed>>

\* generate_async: one vendor call (generate_product_image / generate_thumbnail)
\* returns or raises; the product worker prints the error and goes on with the
\* next image, the thumbnail worker goes to its except branch
VendorCall(j, raises) ==
    /\ j \in DOMAIN jobs
    /\ jobs[j].pc = "vendor"
    /\ jobs' = [jobs EXCEPT ![j].left = @ - 1,
                            ![j].raised = @ \/ raises,
                            ![j].pc = IF jobs[j].left = 1 THEN "open" ELSE "vendor"]
    /\ UNCHANGED <<IS_POSTGRES, now, tables, conf, last, completed>>

\* generate_async: open(result_file, 'w')
OpenResult(j) ==
    /\ j \in DOMAIN jobs
    /\ jobs[j].pc = "open"
    /\ jobs' = [jobs EXCEPT ![j].file = "empty", ![j].pc = "dump"]
    /\ UNCHANGED <<IS_POSTGRES, now, tables, conf, last, completed>>

\* the status generate_async writes: the product worker always "completed",
\* the thumbnail worker "failed" from its except branch
written_status(job) ==
    IF job.kind = "thumbnail" /\ job.raised THEN "failed" ELSE "completed"

\* generate_async: json.dump(...) and the close of the file
DumpResult(j) ==
    /\ j \in DOMAIN jobs
    /\ jobs[j].pc = "dump"
    /\ jobs' = [jobs EXCEPT ![j].file = written_status(jobs[j]), ![j].pc = "done"]
    /\ UNCHANGED <<IS_POSTGRES, now, tables, conf, last, completed>>

\* job_status(job_id) on the directories jbs: "error" is json.load raising
\* on a result file that has no content yet (the request fails)
job_status_outcome(jbs, job_id) ==
    IF job_id \notin DOMAIN jbs THEN "not_found"
    ELSE IF jbs[job_id].file = "absent" THEN "processing"
    ELSE IF jbs[job_id].file = "empty" THEN "error"
    ELSE jbs[job_id].file

\* GET /api/job/<job_id>/status
job_status(job_id) ==
    /\ last' = [op |-> "job_status", job_id |-> job_id,
                status |-> job_status_outcome(jobs, job_id)]
    /\ UNCHANGED <<IS_POSTGRES, now, tables, conf, completed, jobs>>

\* the steps of the worker of job j
Worker(j) ==
    \/ \E raises \in BOOLEAN : VendorCall(j, raises)
    \/ OpenResult(j)
    \/ DumpResult(j)

InitJob ==
    /\ IS_POSTGRES = FALSE
    /\ now = 0
    /\ users = [u \in Users |-> [plan |-> "free"]]
    /\ usage = [k \in {<<u, CURRENT_DATE(0)>> : u \in Users} |-> 0]
    /\ generations = <<>>
    /\ payments = <<>>
    /\ subscriptions = <<>>
    /\ conf = NoCalls
    /\ last = [op |-> "init"]
    /\ completed = [u \in Users |-> 0]
    /\ jobs = NoCalls

NextJob ==
    \/ \E count \in 1..MaxCount, comfy_running \in BOOLEAN :
            generate_product(count, comfy_running)
    \/ \E comfy_running \in BOOLEAN : generate_thumb(comfy_running)
    \/ \E j \in JobIds : Worker(j)
    \/ \E j \in JobIds : job_status(j)

\* every vendor call returns or raises and the worker threads keep running
SpecJob == InitJob /\ [][NextJob]_vars /\ \A j \in JobIds : WF_vars(Worker(j))

(***************************************************************************)
(* Payment endpoints, server.py: the handlers run behind @token_required,  *)
(* which identifies the caller; what each hands on to payment.py.          *)
(***************************************************************************)

\* POST /api/payment/create by caller: create_payment_order(request.user['id'], plan)
api_create_payment_outcome(caller, pays, plan, t) ==
    create_payment_order_outcome(pays, caller, plan, t)

\* POST /api/payment/confirm by caller: confirm_payment(payment_key, order_id,
\* amount); the caller's identity is not handed on
api_confirm_payment_outcome(caller, usrs, pays, subs, payment_key, order_id, amount, gw, t) ==
    confirm_payment_outcome(usrs, pays, subs, payment_key, order_id, amount, gw, t)

\* POST /api/payment/cancel by caller: cancel_payment(payment_key, reason);
\* the caller's identity is not handed on
api_cancel_payment_outcomes(caller, usrs, pays, subs, payment_key, gw) ==
    cancel_payment_outcomes(usrs, pays, subs, payment_key, gw)

\* GET /api/payment/history by caller: get_payment_history(request.user['id']),
\* the caller's payment rows
api_payment_history(caller, pays) ==
    {pays[i] : i \in {j \in DOMAIN pays : pays[j].user_id = caller}}

(***************************************************************************)
(* Claims on the usage ledger (SpecUsage).                                 *)
(***************************************************************************)

\* the negative daily_limit that stands for "unlimited" (server.py api_subscription)
UNLIMITED == -1

\* C1: for a user whose plan has daily limit N >= 0, get_user_usage (and the
\* answers of the check and record endpoints) report can_generate = TRUE
\* exactly while fewer than N increment_usage calls have completed for the
\* user on the current day, and FALSE from the N-th on; for the negative
\* "unlimited" limit, and for a limit of 0, can_generate is TRUE, resp. FALSE,
\* for every count.
C1_CanGenerateUntilLimit ==
    /\ \A u \in Users :
          LET g == get_user_usage(u)
          IN  /\ g.today_count = completed[u]
              /\ g.daily_limit >= 0 =>
                    (g.can_generate <=> completed[u] < g.daily_limit)
    /\ last.op \in {"api_record_usage", "api_check_generate"} =>
          (last.can_generate <=>
              completed[last.user] < plan_info(users[last.user].plan).daily_limit)
    /\ \A c \in 0 .. MaxGenerations :
          /\ can_generate(UNLIMITED, c)
          /\ ~can_generate(0, c)

\* C1 witness: a user has completed exactly as many increments today as the
\* plan's limit, and the record endpoint has just reported can_generate = FALSE
C1_Witness ==
    \E u \in Users :
        /\ last.op = "api_record_usage" /\ last.user = u
        /\ completed[u] = plan_info(users[u].plan).daily_limit
        /\ ~get_user_usage(u).can_generate
        /\ ~last.can_generate

\* C2: the stored counter of a user and day never exceeds the daily limit of
\* the user's plan, whatever requests the user issues one after another.
C2_CounterWithinLimit ==
    \A k \in DOMAIN usage :
        LET limit == plan_info(users[k[1]].plan).daily_limit
        IN  limit >= 0 => usage[k] <= limit

\* C3: POST /api/generate produces an image for an authenticated user only
\* when the user's can_generate is true, denies the request otherwise, and a
\* successful generation adds one to the user's counter of the day.
C3_GenerateIsGate ==
    [][ last'.op = "generate_image" =>
          LET u == last'.user
          IN  /\ last'.result = "success" =>
                    /\ get_user_usage(u).can_generate
                    /\ today_count(usage', u, now') = today_count(usage, u, now) + 1
              /\ ~get_user_usage(u).can_generate => last'.result = "quota_exceeded"
      ]_vars

(***************************************************************************)
(* Claims on payment reconciliation (Spec, SpecConc).  A claim about what  *)
(* a handler returns and commits is stated in every reachable state, for   *)
(* every input, of the handler's outcome there.                            *)
(***************************************************************************)

\* the tables the payment handlers write, as they are
DB == [users |-> users, payments |-> payments, subscriptions |-> subscriptions]

Confirm(payment_key, order_id, amount, gw) ==
    confirm_payment_outcome(users, payments, subscriptions,
                            payment_key, order_id, amount, gw, now)

PendingOrders == {i \in DOMAIN payments : payments[i].status = "pending"}

\* C4: for every paid plan p and user u, an order created by
\* create_payment_order(u, p) is a pending payment of the price of p, and
\* confirm_payment with a test key, the order id and that amount succeeds
\* without calling the gateway, after which the payment is approved, u's plan
\* is p and get_subscription_status(u) reports plan p, active, expiring 30
\* days later; on SQLite and on PostgreSQL.
C4_TestConfirmUpgrades ==
    \A u \in Users, plan \in DOMAIN PLAN_PRICES :
        LET ord == create_payment_order_outcome(payments, u, plan, now)
        IN  ord.result = "success" =>
              /\ ord.amount = PLAN_PRICES[plan]
              /\ \E i \in order_rows(ord.payments, ord.order_id) :
                    /\ ord.payments[i].status = "pending"
                    /\ ord.payments[i].amount = PLAN_PRICES[plan]
              /\ LET c == confirm_payment_outcome(users, ord.payments, subscriptions,
                                "test_payment_1", ord.order_id, ord.amount,
                                "not_called", now)
                 IN  /\ c.result = "success"
                     /\ ~c.gateway
                     /\ \A i \in order_rows(c.db.payments, ord.order_id) :
                           c.db.payments[i].status = "approved"
                     /\ c.db.users[u].plan = plan
                     /\ \A st \in get_subscription_status_at(c.db.subscriptions, u, now) :
                           /\ st.plan = plan
                           /\ st.active
                           /\ st.expires_at = now + 30 * DAY

\* C5: under any interleaving of confirm_payment calls, an order causes at
\* most one subscription row carrying its order id, and at most one of the
\* calls returns success.
C5_OneUpgradePerOrder ==
    \A i \in DOMAIN payments :
        LET o == payments[i].order_id
        IN  /\ Cardinality({j \in DOMAIN subscriptions : subscriptions[j].order_id = o}) <= 1
            /\ Cardinality({p \in Procs : /\ conf[p].pc = "returned"
                                          /\ conf[p].order_id = o
                                          /\ conf[p].result = "success"}) <= 1

\* C6: confirm_payment for an unknown order id fails with 'order not found'
\* and for an order that is not pending with 'already processed'; the
\* gateway is not called and no table changes.
C6_UnknownOrProcessedOrderRejected ==
    \A k \in PaymentKeys, o \in OrderInputs, gw \in GatewayOutcomes :
        \A a \in AmountInputs(o) :
            LET out == Confirm(k, o, a, gw)
            IN  /\ (\A i \in DOMAIN payments : payments[i].order_id # o) =>
                      out.result = "order_not_found" /\ ~out.gateway /\ out.db = DB
                /\ (\E i \in DOMAIN payments : /\ payments[i].order_id = o
                                               /\ payments[i].status # "pending") =>
                      out.result = "already_processed" /\ ~out.gateway /\ out.db = DB

\* C6 witness: an order that was approved and then cancelled is confirmed
\* again and the call answers 'already processed'
C6_Witness ==
    \E i \in DOMAIN payments :
        /\ payments[i].status = "cancelled"
        /\ Confirm("test_payment_1", payments[i].order_id, payments[i].amount,
                   "not_called").result = "already_processed"

\* amounts around the two accepted ones
C7_Amounts(P) == {0, 1, P - 1, P, P + 1, P + P \div 10 - 1, P + P \div 10,
                  P + P \div 10 + 1, 2 * P}

\* C7: for a pending order of price P, confirm_payment rejects an amount with
\* the amount-mismatch error exactly when it is neither P nor P + P/10; a
\* rejection calls no gateway and changes no table, so that a confirmation
\* with a correct amount still succeeds afterwards.
C7_AmountCheck ==
    \A i \in PendingOrders, k \in PaymentKeys, gw \in GatewayOutcomes :
        LET P == payments[i].amount
            o == payments[i].order_id
        IN  /\ \A a \in C7_Amounts(P) :
                  LET out == Confirm(k, o, a, gw)
                  IN  /\ out.result = "amount_mismatch" <=> a \notin {P, P + P \div 10}
                      /\ out.result = "amount_mismatch" => ~out.gateway /\ out.db = DB
            /\ \A a \in {P, P + P \div 10} :
                  Confirm("tviva_1", o, a, "200").result = "success"

\* C7 witness: a pending order for which an amount of 1 is rejected
C7_Witness ==
    \E i \in PendingOrders :
        /\ Confirm("tviva_1", payments[i].order_id, 1, "200").result = "amount_mismatch"
        /\ Confirm("tviva_1", payments[i].order_id,
                   payments[i].amount + payments[i].amount \div 10, "200").result = "success"

\* the status changes the claim allows
C8_Forward(from, to) ==
    \/ from = to
    \/ from = "pending" /\ to \in {"approved", "failed", "expired"}
    \/ from = "approved" /\ to \in {"cancelled", "expired"}

\* C8: each payment's status only moves forward: from pending to approved,
\* failed or expired, to cancelled only from approved, and never back.
C8_StatusMovesForward ==
    [][ \A i \in DOMAIN payments :
            C8_Forward(payments[i].status, payments'[i].status) ]_vars

\* handle_webhook on the tables db
Deliver(db, w) ==
    handle_webhook_outcome(db.users, db.payments, db.subscriptions, w[1], w[2], w[3]).db

\* C9: delivering each event of a webhook sequence twice in a row leaves the
\* payments, users and subscriptions as delivering each event once (sequences
\* of one and of two events: after the first event delivered once or twice,
\* the second delivered once or twice).
C9_WebhookIdempotent ==
    \A w1 \in WebhookInputs :
        LET once1 == Deliver(DB, w1)
        IN  /\ Deliver(once1, w1) = once1
            /\ \A w2 \in WebhookInputs :
                   LET once2 == Deliver(once1, w2)
                   IN  Deliver(Deliver(Deliver(once1, w1), w2), w2) = once2

\* C9 witness: a webhook has changed a payment (only the EXPIRED event sets
\* status expired), and delivering CANCELED for its key changes it again
C9_Witness ==
    \E i \in DOMAIN payments :
        /\ payments[i].status = "expired"
        /\ Deliver(DB, <<"PAYMENT_STATUS_CHANGED", payments[i].payment_key,
                         "CANCELED">>) # DB

GatewayFailures == {"rejected", "timeout", "error"}

C11_CancelPaymentDowngrades ==
    \A k \in PaymentKeys :
        /\ \A out \in cancel_payment_outcomes(users, payments, subscriptions, k, "200") :
              \A i \in rows_by_key(payments, k) :
                  LET u == payments[i].user_id
                  IN  /\ out.result = "success"
                      /\ out.db.payments[i].status = "cancelled"
                      /\ out.db.users[u].plan = "free"
                      /\ active_rows(out.db.subscriptions, u) = {}
                      /\ \A st \in get_subscription_status_at(out.db.subscriptions, u, now) :
                            st.plan = "free"
        /\ \A out \in cancel_payment_outcomes(users, payments, subscriptions, k,
                                              "rejected") :
              out.result # "success" /\ out.db = DB

\* C12: for a user whose stored plan is not free, cancel_subscription
\* succeeds, the stored plan becomes free, none of the user's subscription
\* rows stays active, the rows of other users are untouched and
\* get_subscription_status reports plan free; for a user whose plan is free
\* it fails with 'already free' and changes nothing.
C12_CancelSubscription ==
    \A u \in Users :
        LET out == cancel_subscription_outcome(users, subscriptions, u)
        IN  IF users[u].plan # "free"
            THEN /\ out.result = "success"
                 /\ out.db.users[u].plan = "free"
                 /\ active_rows(out.db.subscriptions, u) = {}
                 /\ \A v \in Users \ {u} : out.db.users[v] = users[v]
                 /\ DOMAIN out.db.subscriptions = DOMAIN subscriptions
                 /\ \A i \in DOMAIN subscriptions :
                       subscriptions[i].user_id # u =>
                           out.db.subscriptions[i] = subscriptions[i]
                 /\ \A st \in get_subscription_status_at(out.db.subscriptions, u, now) :
                       st.plan = "free"
            ELSE /\ out.result = "already_free"
                 /\ out.db.users = users
                 /\ out.db.subscriptions = subscriptions

\* C12 witness: a user back on the free plan whose two subscription rows are
\* cancelled, one of them a row no payment made (only cancel_subscription
\* cancels such a row), while the other user holds an active row
C12_Witness ==
    \E u \in Users :
        /\ users[u].plan = "free"
        /\ Cardinality({i \in DOMAIN subscriptions :
                            /\ subscriptions[i].user_id = u
                            /\ subscriptions[i].status = "cancelled"}) >= 2
        /\ \E i \in DOMAIN subscriptions :
              /\ subscriptions[i].user_id = u
              /\ subscriptions[i].status = "cancelled"
              /\ subscriptions[i].payment_key = NULL
        /\ cancel_subscription_outcome(users, subscriptions, u).result = "already_free"

\* users without a subscription row of status active
NoActiveRow == {u \in Users : active_rows(subscriptions, u) = {}}

\* C13: for a user with no subscription row of status active,
\* get_subscription_status reports the free tier as active: plan free,
\* active true, no expiry.
C13_FreeTierActive ==
    \A u \in NoActiveRow :
        \A st \in get_subscription_status(u) :
            /\ st.plan = "free"
            /\ st.active
            /\ "expires_at" \notin DOMAIN st

\* C13 as amended: for a user with no subscription row of status active,
\* get_subscription_status reports plan free with active false, and no
\* status, start or expiry.
C13_FreeTierAmended ==
    \A u \in NoActiveRow :
        get_subscription_status(u) = {[active |-> FALSE, plan |-> "free"]}

\* C13 witness: a user all of whose subscription rows are cancelled
C13_Witness ==
    \E u \in NoActiveRow :
        /\ \E i \in DOMAIN subscriptions : subscriptions[i].user_id = u
        /\ get_subscription_status(u) = {[active |-> FALSE, plan |-> "free"]}

\* C14: each user has at most one subscription row with status active.
C14_OneActiveSubscription ==
    \A u \in Users : Cardinality(active_rows(subscriptions, u)) <= 1

(***************************************************************************)
(* Claims on expiry (Spec).                                                *)
(***************************************************************************)

\* C16: expiry is computed only at read time.  The passing of time changes no
\* table; get_subscription_status reports is_expired = TRUE and active = FALSE
\* exactly once the clock has passed the expires_at of the user's most recent
\* active row, the row keeps status active, and get_user_usage keeps applying
\* the daily limit of the plan stored on the user row.
C16_ExpiryAtReadTime ==
    [][ /\ now' # now => tables' = tables
        /\ \A u \in Users :
              /\ \A st \in get_subscription_status_at(subscriptions', u, now') :
                    "expires_at" \in DOMAIN st =>
                        /\ st.status = "active"
                        /\ st.is_expired <=> now' > st.expires_at
                        /\ st.active <=> ~(now' > st.expires_at)
              /\ LET g == get_user_usage_at(users', usage', generations', u, now')
                 IN  /\ g.plan = users'[u].plan
                     /\ g.daily_limit = PLANS[users'[u].plan].daily_limit
      ]_vars

\* C16 witness: the clock has passed the expiry of a user's active paid
\* subscription; the status read reports it expired while the user row and
\* get_user_usage still carry the paid plan
C16_Witness ==
    \E u \in Users :
        /\ users[u].plan \in DOMAIN PLAN_PRICES
        /\ get_user_usage(u).daily_limit > PLANS["free"].daily_limit
        /\ \E i \in latest_active(subscriptions, u) :
              /\ subscriptions[i].plan = users[u].plan
              /\ now > subscriptions[i].expires_at
        /\ \A st \in get_subscription_status(u) : st.is_expired /\ ~st.active

(***************************************************************************)
(* Claims on the credential store and the sessions (SpecAuth).             *)
(***************************************************************************)

\* plan values outside the enumeration {free, basic, pro, business}
InvalidPlans == PlanValues \ PlanTags

\* C15: the plan stored on every user, subscription and payment row is one of
\* free, basic, pro, business, and update_user_plan, create_payment_order,
\* PUT /api/admin/users/<id> and the admin plan-change endpoint reject any
\* other plan value and store nothing.
C15_PlanEnumerationClosed ==
    /\ \A u \in DOMAIN users : users[u].plan \in PlanTags
    /\ \A i \in DOMAIN subscriptions : subscriptions[i].plan \in PlanTags
    /\ \A i \in DOMAIN payments : payments[i].plan \in PlanTags
    /\ \A u \in DOMAIN users, plan \in InvalidPlans :
          /\ LET out == update_user_plan_outcome(users, subscriptions, u, plan,
                                                 NULL, NULL, now)
             IN  /\ out.result # "success"
                 /\ out.db = [users |-> users, subscriptions |-> subscriptions]
          /\ LET out == create_payment_order_outcome(payments, u, plan, now)
             IN  out.result # "success" /\ out.payments = payments
          /\ LET out == api_admin_change_plan_outcome(users, u, plan)
             IN  out.result # "success" /\ out.users = users
          /\ LET out == admin_update_user_outcome(users, u, [plan |-> plan])
             IN  out.result # "success" /\ out.users = users

\* the token register_user handed to the user of row u
TokenOf(u) == create_token(u, users[u].email, users[u].created_at)

\* C17: a request carrying the unexpired token of a user whose is_active flag
\* is false is unauthenticated for every endpoint: token_required and
\* admin_required answer 401 and optional_token attaches no identity; once
\* the flag is true again the token is valid again.
C17_DisabledAccountUnauthenticated ==
    \A u \in DOMAIN users :
        verify_token(TokenOf(u), now) =>
            IF ~users[u].is_active
            THEN /\ token_required(users, TokenOf(u), now).status = "401"
                 /\ admin_required(users, TokenOf(u), now).status = "401"
                 /\ ~optional_token(users, TokenOf(u), now).attached
            ELSE /\ token_required(users, TokenOf(u), now).status = "ok"
                 /\ token_required(users, TokenOf(u), now).user.id = u
                 /\ optional_token(users, TokenOf(u), now).attached

\* emails with and without a row
Registered == {e \in LoginEmails : rows_by_email(users, e) # {}}

\* C18: for a password that is not the account's, login_user answers a
\* registered email exactly as an unregistered one, whether the account is
\* active or disabled; 'account disabled' is returned only to a caller who
\* supplied the account's password.
C18_LoginHidesRegistration ==
    \A e1 \in Registered, e2 \in LoginEmails \ Registered, password \in Passwords :
        LET id == CHOOSE i \in rows_by_email(users, e1) : TRUE
        IN  ~verify_password(password, users[id].password_hash) =>
                /\ login_user_outcome(users, e1, password, now).result
                      = login_user_outcome(users, e2, password, now).result
                /\ login_user_outcome(users, e1, password, now).result
                      # "account_disabled"

\* C19: for an email not yet registered and a password of at least 8
\* characters, register_user followed by login_user with the same email and
\* password succeeds and yields a token that verifies to the registered
\* user's id and the email; login_user with the same email and another
\* password fails and issues no token.
C19_RegisterLoginRoundTrip ==
    \A email \in Emails, password \in Passwords :
        (Len(password) >= 8 /\ rows_by_email(users, email) = {}) =>
            LET r == register_user_outcome(users, usage, email, password, now)
                l == login_user_outcome(r.users, email, password, now)
            IN  /\ r.result = "success"
                /\ l.result = "success"
                /\ verify_token(l.token, now)
                /\ l.token.user_id = r.user_id
                /\ l.token.email = email
                /\ token_required(l.users, l.token, now).status = "ok"
                /\ token_required(l.users, l.token, now).user.id = r.user_id
                /\ token_required(l.users, l.token, now).user.email = email
                /\ \A other \in Passwords \ {password} :
                      LET w == login_user_outcome(r.users, email, other, now)
                      IN  /\ w.result # "success"
                          /\ "token" \notin DOMAIN w
                          /\ w.users = r.users

\* C19 witness: a registered user has logged in, the token of that login
\* verifies to the user, and an email is still free to register
C19_Witness ==
    /\ \E u \in DOMAIN users :
          /\ users[u].last_login # <<>>
          /\ users[u].is_active
          /\ token_required(users,
                            create_token(u, users[u].email, users[u].last_login[1]),
                            now).status = "ok"
    /\ \E email \in Emails : rows_by_email(users, email) = {}

\* C20: register_user fails, issues no token and leaves users and usage
\* unchanged when the password has fewer than 8 characters (7 fails, 8 is
\* accepted) or the email is already registered; when it succeeds it adds
\* exactly one user row, with plan free, and a usage row of count 0 for the
\* current day.
C20_RegisterValidation ==
    \A email \in Emails, password \in Passwords :
        LET r   == register_user_outcome(users, usage, email, password, now)
            new == Len(users) + 1
        IN  IF Len(password) < 8 \/ rows_by_email(users, email) # {}
            THEN /\ r.result # "success"
                 /\ "token" \notin DOMAIN r
                 /\ r.users = users
                 /\ r.usage = usage
            ELSE /\ r.result = "success"
                 /\ "token" \in DOMAIN r
                 /\ Len(r.users) = new
                 /\ SubSeq(r.users, 1, Len(users)) = users
                 /\ r.users[new].email = email
                 /\ r.users[new].plan = "free"
                 /\ rows_by_email(r.users, email) = {new}
                 /\ DOMAIN r.usage = DOMAIN usage \cup {<<new, CURRENT_DATE(now)>>}
                 /\ r.usage[<<new, CURRENT_DATE(now)>>] = 0
                 /\ \A k \in DOMAIN usage : r.usage[k] = usage[k]

\* C20 witness: a user registered with the 8-character password holds a free
\* row and a zero usage row of the day of registration, and registering the
\* same email again is refused
C20_Witness ==
    \E u \in DOMAIN users :
        /\ users[u].password_hash = hash_password("12345678")
        /\ <<u, CURRENT_DATE(users[u].created_at)>> \in DOMAIN usage
        /\ usage[<<u, CURRENT_DATE(users[u].created_at)>>] = 0
        /\ register_user_outcome(users, usage, users[u].email, "password1", now).result
              = "duplicate_email"
        /\ register_user_outcome(users, usage, "b@x.com", "1234567", now).result
              = "weak_password"

(***************************************************************************)
(* Claims on registrations in flight and the usage rows (SpecReg).         *)
(***************************************************************************)

\* C21: when two register_user calls for the same email have both made the
\* email check and both have returned, there is exactly one user row with the
\* email, one call has returned success and the other the duplicate-email
\* failure (neither has raised a storage error)
C21_ConcurrentRegisterOneWins ==
    \A p \in Procs, q \in Procs :
        ( /\ p # q
          /\ conf[p].pc = "returned" /\ conf[q].pc = "returned"
          /\ conf[p].email = conf[q].email
          /\ conf[p].result # "weak_password" /\ conf[q].result # "weak_password" )
        => /\ Cardinality(rows_by_email(users, conf[p].email)) = 1
           /\ {conf[p].result, conf[q].result} = {"success", "duplicate_email"}

\* C22: every step leaves the usage rows of earlier days as they were and
\* removes no row, and after it the counter of every user for the day equals
\* the number of increment_usage calls committed for the user that day (the
\* table holds one row per (user, day): the key of usage is UNIQUE)
C22_UsageCountsIncrements ==
    [][ /\ \A k \in DOMAIN usage :
              /\ k \in DOMAIN usage'
              /\ k[2] < CURRENT_DATE(now') => usage'[k] = usage[k]
        /\ \A u \in DOMAIN users' :
              /\ today_count(usage', u, now') = completed'[u]
              /\ \A k \in DOMAIN usage' : k[1] = u /\ k \notin DOMAIN usage
                    => k[2] = CURRENT_DATE(now) ]_vars

\* increments of two days are counted, next to a registration that raced
C22_Witness ==
    /\ CURRENT_DATE(now) = 1
    /\ \E u \in DOMAIN users :
          /\ completed[u] >= 2
          /\ <<u, 0>> \in DOMAIN usage /\ usage[<<u, 0>>] >= 1
          /\ usage[<<u, 1>>] = completed[u]

\* the requests that only read
ReadOps == {"api_check_generate", "api_usage", "api_subscription"}
CountOps == {"api_usage", "api_subscription"}

\* C23: a step in which get_user_usage, check_can_generate or
\* get_subscription_status answers changes no row of any table; the
\* today_count it reports is the stored counter of the day, and the same as
\* the one reported to the previous read for the user when no increment and
\* no midnight came in between
C23_ReadsChangeNothing ==
    [][ (last' # last /\ last'.op \in ReadOps)
        => /\ tables' = tables
           /\ now' = now
           /\ completed' = completed
           /\ last'.op \in CountOps
                => /\ last'.today_count =
                        ( IF <<last'.user, CURRENT_DATE(now)>> \in DOMAIN usage
                          THEN usage[<<last'.user, CURRENT_DATE(now)>>] ELSE 0 )
                   /\ (last.op \in CountOps /\ last.user = last'.user)
                        => last'.today_count = last.today_count ]_vars

\* a read has reported a counter that increments had raised, on the second day
C23_Witness ==
    /\ last.op \in CountOps
    /\ last.today_count >= 1
    /\ CURRENT_DATE(now) = 1
    /\ <<last.user, 0>> \in DOMAIN usage
    /\ usage[<<last.user, 0>>] >= 1

(***************************************************************************)
(* Claims on orders (Spec).                                                *)
(***************************************************************************)

\* C24: in every state, a create_payment_order call for a plan of the price
\* table succeeds with an order id that no payment row carries (the orders the
\* same user made for the same plan within the same clock second included)
\* and adds exactly one pending row; a call for any other plan, free
\* included, fails and adds no row
C24_OrderIdsDistinct ==
    \A u \in Users, plan \in PlanInputs :
        LET out == create_payment_order_outcome(payments, u, plan, now)
        IN  IF plan \in DOMAIN PLAN_PRICES
            THEN /\ out.result = "success"
                 /\ order_rows(payments, out.order_id) = {}
                 /\ Len(out.payments) = Len(payments) + 1
                 /\ SubSeq(out.payments, 1, Len(payments)) = payments
                 /\ out.payments[Len(out.payments)].status = "pending"
            ELSE /\ out.result = "invalid_plan"
                 /\ out.payments = payments

(***************************************************************************)
(* Claims on image generation (SpecGen).                                   *)
(***************************************************************************)

\* C25: whenever generate_with_replicate_api has handled a request, the model
\* it sent to the image backend is one of the models available to the stored
\* plan (an unknown tag counting as free), the width and the height it sent
\* are at most the plan's resolution cap, and a request that needs flux-2-pro
\* under a plan that does not permit it was not sent
C25_PlanBoundsGeneration ==
    last.op = "generate" =>
        /\ last.out.result = "sent" =>
              /\ last.out.model \in available_models(last.plan)
              /\ last.out.width <= max_res(last.plan)
              /\ last.out.height <= max_res(last.plan)
        /\ (last.edit /\ "flux-2-pro" \notin available_models(last.plan))
              => last.out.result # "sent"

(***************************************************************************)
(* Claims on requests that check before they record (SpecQuota).           *)
(***************************************************************************)

\* C26: with at most k requests in flight (k = the number of request slots),
\* no counter of a user with daily limit N >= 0 exceeds N + k - 1; with one
\* slot no counter exceeds N
C26_OvershootBounded ==
    \A key \in DOMAIN usage :
        LET N == plan_info(users[key[1]].plan).daily_limit
            k == Cardinality(DOMAIN conf)
        IN  N >= 0 => /\ usage[key] <= N + k - 1
                      /\ k = 1 => usage[key] <= N

\* with two slots a counter has reached N + 1
C26_Witness ==
    /\ Cardinality(DOMAIN conf) = 2
    /\ \E key \in DOMAIN usage :
          usage[key] = plan_info(users[key[1]].plan).daily_limit + 1

(***************************************************************************)
(* Claims on background jobs (SpecJob).                                    *)
(***************************************************************************)

Terminal == {"completed", "failed"}

\* every started job is in time answered with a terminal status
JobsFinish ==
    \A j \in JobIds :
        (j \in DOMAIN jobs) ~> (j \in DOMAIN jobs /\ job_status_outcome(jobs, j) \in Terminal)

\* C27: job_status never fails on a started job and never answers not_found;
\* it answers processing exactly until the worker has written its result,
\* from then on failed when a vendor call of the job raised and completed
\* otherwise, for good; and every started job is in time answered with a
\* terminal status
C27_JobsReachTerminal ==
    /\ [](\A j \in DOMAIN jobs :
            LET status == job_status_outcome(jobs, j)
            IN  /\ status \in {"processing"} \cup Terminal
                /\ status = "processing" <=> jobs[j].pc # "done"
                /\ jobs[j].pc = "done"
                      => status = IF jobs[j].raised THEN "failed" ELSE "completed")
    /\ \A j \in JobIds :
          [](( j \in DOMAIN jobs /\ job_status_outcome(jobs, j) \in Terminal)
              => [](job_status_outcome(jobs, j) \in Terminal))
    /\ JobsFinish

(***************************************************************************)
(* Claims on payments against subscriptions (Spec, SpecAuth).              *)
(***************************************************************************)

\* C28: every active subscription row refers to an approved payment (every
\* subscription row of this specification was created by a payment and
\* carries its order id), so a payment that cancel_payment or a CANCELED /
\* EXPIRED webhook has moved out of approved has no active subscription, and
\* every approved payment, one approved by a DONE webhook included, has an
\* active subscription
C28_ActiveSubscriptionIsPaid ==
    /\ \A i \in DOMAIN subscriptions :
          subscriptions[i].status = "active"
          => \E j \in DOMAIN payments :
                /\ payments[j].order_id = subscriptions[i].order_id
                /\ payments[j].status = "approved"
    /\ \A j \in DOMAIN payments :
          payments[j].status = "approved"
          => \E i \in DOMAIN subscriptions :
                /\ subscriptions[i].order_id = payments[j].order_id
                /\ subscriptions[i].status = "active"

\* C29: for every registered user the stored plan is the plan that
\* get_subscription_status reads from the subscription ledger (the plan of
\* the most recent active row, free when there is none)
C29_PlanAgreesWithLedger ==
    \A u \in DOMAIN users :
        \A st \in get_subscription_status_at(subscriptions, u, now) :
            st.plan = users[u].plan

(***************************************************************************)
(* Claims on the callers of the payment endpoints (Spec).                  *)
(***************************************************************************)

\* the entitlements of user b in the tables db are those of the current state
Untouched(b, db) ==
    /\ db.users[b] = users[b]
    /\ {<<i, db.subscriptions[i]>> :
            i \in {j \in DOMAIN db.subscriptions : db.subscriptions[j].user_id = b}}
       = {<<i, subscriptions[i]>> :
            i \in {j \in DOMAIN subscriptions : subscriptions[j].user_id = b}}
    /\ {<<i, db.payments[i].status>> :
            i \in {j \in DOMAIN db.payments : db.payments[j].user_id = b}}
       = {<<i, payments[i].status>> :
            i \in {j \in DOMAIN payments : payments[j].user_id = b}}

\* C30: in every state and for every two users a # b, each request a can
\* send to the payment endpoints (create, confirm, cancel, history) leaves
\* b's plan, b's subscription rows and the status of b's payments as they
\* are; a's confirmation of an order of b and a's cancellation of a payment
\* key of b are rejected; the history shows a only a's payments
C30_PaymentsIsolated ==
    \A a \in Users : \A b \in Users \ {a} :
        /\ \A plan \in PlanInputs :
              Untouched(b, [DB EXCEPT !.payments =
                    api_create_payment_outcome(a, payments, plan, now).payments])
        /\ \A k \in PaymentKeys, o \in OrderInputs :
              \A amount \in AmountInputs(o) :
                 \A gw \in GatewayAnswers(k, o, amount) :
                    LET out == api_confirm_payment_outcome(a, users, payments,
                                   subscriptions, k, o, amount, gw, now)
                    IN  /\ Untouched(b, out.db)
                        /\ (\E i \in order_rows(payments, o) : payments[i].user_id = b)
                              => out.result # "success"
        /\ \A k \in PaymentKeys, gw \in CancelOutcomes :
              \A out \in api_cancel_payment_outcomes(a, users, payments, subscriptions,
                                                     k, gw) :
                 /\ Untouched(b, out.db)
                 /\ (\E i \in rows_by_key(payments, k) : payments[i].user_id = b)
                       => out.result # "success"
        /\ \A row \in api_payment_history(a, payments) : row.user_id = a

====
